---- MODULE Spec2Model ----
(***************************************************************************)
(* Model of src/app.js: an Express server exposing the "products" and      *)
(* "items" collections of a MongoDB database.                              *)
(*                                                                         *)
(* A request handler runs synchronously up to its first await (validation, *)
(* clock reads, building the store command): that is one Receive action.   *)
(* The store applies the commands in flight in any order, one document     *)
(* operation at a time; the rest of the handler (status and body of the    *)
(* response) runs on the store's answer: that is one Reply action.         *)
(* The store is taken to answer every command once the connection is up.   *)
(*                                                                         *)
(* Time is what new Date() returns: each call returns the previous value   *)
(* or a later one.                                                         *)
(*                                                                         *)
(* JavaScript strings are tuples of one-character strings, so that trim,   *)
(* split, Number() and ObjectId.isValid are computed as the code does.     *)
(***************************************************************************)
EXTENDS Integers, Sequences, FiniteSets, Bags, TLC

\* ------------------------------------------------------------ bounds
\* Requests that may be awaiting the store at the same time.
MaxInFlight == 2
\* Documents ever inserted (ObjectIds ever generated) in one run.
MaxDocs == 1
\* Milliseconds the clock may advance in one run.
MaxClock == 1

\* ------------------------------------------------------ JavaScript values
Undefined == [t |-> "undefined", s |-> <<>>, n |-> 0, nan |-> FALSE]
Str(chars) == [t |-> "string", s |-> chars, n |-> 0, nan |-> FALSE]
Num(k) == [t |-> "number", s |-> <<>>, n |-> k, nan |-> FALSE]
NaN == [t |-> "number", s |-> <<>>, n |-> 0, nan |-> TRUE]

WhiteSpace == {" ", "\t", "\n"}
Digits == <<"0", "1", "2", "3", "4", "5", "6", "7", "8", "9">>
HexLower == <<"0", "1", "2", "3", "4", "5", "6", "7", "8", "9", "a", "b", "c", "d", "e", "f">>
HexUpper == <<"0", "1", "2", "3", "4", "5", "6", "7", "8", "9", "A", "B", "C", "D", "E", "F">>

Range(f) == {f[i] : i \in DOMAIN f}

DigitChars == Range(Digits)
HexChars == Range(HexLower) \cup Range(HexUpper)

\* String.prototype.trim
RECURSIVE TrimLeft(_)
TrimLeft(s) ==
  IF s # <<>> /\ Head(s) \in WhiteSpace THEN TrimLeft(Tail(s)) ELSE s

RECURSIVE TrimRight(_)
TrimRight(s) ==
  IF s # <<>> /\ s[Len(s)] \in WhiteSpace
  THEN TrimRight(SubSeq(s, 1, Len(s) - 1))
  ELSE s

Trim(s) == TrimRight(TrimLeft(s))

DigitVal == [c \in DigitChars |-> (CHOOSE i \in DOMAIN Digits : Digits[i] = c) - 1]

RECURSIVE DecimalVal(_)
DecimalVal(s) ==
  IF s = <<>> THEN 0
  ELSE 10 * DecimalVal(SubSeq(s, 1, Len(s) - 1)) + DigitVal[s[Len(s)]]

RECURSIVE DecimalStr(_)
DecimalStr(k) ==
  IF k < 10 THEN <<Digits[k + 1]>>
  ELSE DecimalStr(k \div 10) \o <<Digits[(k % 10) + 1]>>

\* Number(v): a number is itself; a string is trimmed, "" is 0, a run of
\* decimal digits is its value and any other text is NaN; undefined is NaN.
\* (Signs, fractions, exponents and Infinity are not among the inputs drawn.)
Number(v) ==
  CASE v.t = "number" -> v
    [] v.t = "string" ->
         LET w == Trim(v.s)
         IN IF \A i \in DOMAIN w : w[i] \in DigitChars
            THEN Num(DecimalVal(w))
            ELSE NaN
    [] OTHER -> NaN

\* String(v)
String(v) ==
  CASE v.t = "string" -> v.s
    [] v.t = "number" ->
         IF v.nan THEN <<"N", "a", "N">> ELSE DecimalStr(v.n)
    [] OTHER -> <<"u", "n", "d", "e", "f", "i", "n", "e", "d">>

\* !v is FALSE: the value is truthy.
Truthy(v) ==
  CASE v.t = "string" -> v.s # <<>>
    [] v.t = "number" -> ~v.nan /\ v.n # 0
    [] OTHER -> FALSE

\* ----------------------------------------------------------- ObjectId
\* An ObjectId is 12 bytes, written as 24 hexadecimal digits.
OidHexLen == 24

\* ObjectId.isValid(id) for the string of a path parameter.
isValid(id) ==
  /\ Len(id) = OidHexLen
  /\ \A i \in DOMAIN id : id[i] \in HexChars

HexVal ==
  [c \in HexChars |->
     IF c \in Range(HexLower)
     THEN (CHOOSE i \in DOMAIN HexLower : HexLower[i] = c) - 1
     ELSE (CHOOSE i \in DOMAIN HexUpper : HexUpper[i] = c) - 1]

\* new ObjectId(id): the value of the hexadecimal digits, case folded.
ObjectId(id) == [i \in 1..OidHexLen |-> HexVal[id[i]]]

\* The k-th ObjectId the driver generates (unique in one process).
GenOid(k) == [i \in 1..OidHexLen |-> IF i = OidHexLen THEN k ELSE 0]

\* ObjectId.prototype.toHexString
toHexString(oid) == [i \in 1..OidHexLen |-> HexLower[oid[i] + 1]]

NoOid == <<>>


\* ------------------------------------------------------------- state
VARIABLES
  pc,                 \* "load", "connecting", "listening" or "exited"
  exitCode,           \* the code given to process.exit, 0 while running
  MONGO_URI,          \* process.env.MONGO_URI
  productsCollection, \* "unset" until startServer assigns the handle
  itemsCollection,
  products,           \* the documents of shop.products, in natural order
  items,              \* the documents of shop.items, in natural order
  clock,              \* the value new Date() returned last
  nextOid,            \* ObjectIds generated so far
  pending,            \* the requests awaiting the store, a bag of [route, req, op]
  res                 \* the response the last step sent, if it sent one

vars == <<pc, exitCode, MONGO_URI, productsCollection, itemsCollection,
          products, items, clock, nextOid, pending, res>>

startup == <<pc, exitCode, MONGO_URI, productsCollection, itemsCollection>>

\* --------------------------------------------------------- responses
NoBody == [kind |-> "none", text |-> "", count |-> 0, docs |-> <<>>, id |-> NoOid]
ErrorBody(msg) == [NoBody EXCEPT !.kind = "error", !.text = msg]
MessageBody(msg) == [NoBody EXCEPT !.kind = "message", !.text = msg]
CreatedBody(msg, oid) == [NoBody EXCEPT !.kind = "created", !.text = msg, !.id = oid]
DocBody(doc) == [NoBody EXCEPT !.kind = "doc", !.docs = <<doc>>]
ListBody(docs) == [NoBody EXCEPT !.kind = "list", !.count = Len(docs), !.docs = docs]
EmptyBody == [NoBody EXCEPT !.kind = "empty"]

NoResponse == [status |-> 0, body |-> NoBody]

\* What a handler does up to its first await: it either sends a response,
\* res.status(status).json(body), or hands a command to the driver. `now` is
\* the last value it read from the clock.
RespondStep(status, body, now) ==
  [kind |-> "respond", status |-> status, body |-> body, clock |-> now]

IssueStep(route, req, op, now) ==
  [kind |-> "issue", route |-> route, req |-> req, op |-> op, clock |-> now]

\* The catch block of every handler.
InternalError(now) == RespondStep(500, ErrorBody("Internal server error"), now)

\* What a handler does with the store's answer: the response it sends;
\* coll is the collection as the command left it.
ReplyStep(status, body, coll) == [status |-> status, body |-> body, coll |-> coll]

\* ------------------------------------------------------------- store
Matches(coll, oid) == {k \in DOMAIN coll : coll[k]._id = oid}

\* collection.findOne({_id})
findOne(coll, oid) ==
  IF Matches(coll, oid) = {} THEN <<>>
  ELSE <<coll[CHOOSE k \in Matches(coll, oid) : TRUE]>>

\* collection.insertOne(doc)
insertOne(coll, doc) == Append(coll, doc)

\* A faulty updateOne, used to validate C8: the document is replaced by the
\* $set document (replaceOne), so the fields not supplied are lost.
replaceOne(coll, oid, set) ==
  [k \in DOMAIN coll |->
     IF coll[k]._id = oid
     THEN [f \in {"_id"} \cup DOMAIN set |->
             IF f = "_id" THEN coll[k]._id ELSE set[f]]
     ELSE coll[k]]

\* collection.updateOne({_id}, {$set: set}): the fields of set replace the
\* document's, the others stay.
updateOne(coll, oid, set) ==
  [k \in DOMAIN coll |->
     IF coll[k]._id = oid
     THEN [f \in DOMAIN coll[k] \cup DOMAIN set |->
             IF f \in DOMAIN set THEN set[f] ELSE coll[k][f]]
     ELSE coll[k]]

\* collection.deleteOne({_id})
deleteOne(coll, oid) == SelectSeq(coll, LAMBDA d : d._id # oid)

matchedCount(coll, oid) == Cardinality(Matches(coll, oid))

\* A faulty filter, used to validate C7: $gt in place of $gte.
MatchesFilterGt(doc, filter) ==
  /\ filter.category.t # "undefined" => doc.category = filter.category.s
  /\ filter.min.t # "undefined" => doc.price > filter.min.n

\* The filter of GET /api/products: {category, price: {$gte: min}}.
MatchesFilter(doc, filter) ==
  /\ filter.category.t # "undefined" => doc.category = filter.category.s
  /\ filter.min.t # "undefined" => doc.price >= filter.min.n

\* The name of a document field as the characters of a query string.
FieldChars ==
  [_id |-> <<"_", "i", "d">>,
   name |-> <<"n", "a", "m", "e">>,
   price |-> <<"p", "r", "i", "c", "e">>,
   category |-> <<"c", "a", "t", "e", "g", "o", "r", "y">>,
   createdAt |-> <<"c", "r", "e", "a", "t", "e", "d", "A", "t">>]

\* A projection {_id: 0, f: 1, ...}: the listed fields only.
Project(doc, projection) ==
  IF ~projection.on THEN doc
  ELSE [f \in {g \in DOMAIN doc : FieldChars[g] \in projection.fields} |-> doc[f]]

\* The orders in which cursor.toArray() may return the matching documents:
\* natural order without a sort, any order of non-decreasing price with
\* sort {price: 1} (documents of equal price in any order).
FindOrders(matching, sort) ==
  IF ~sort THEN {[k \in 1..Len(matching) |-> k]}
  ELSE {p \in Permutations(1..Len(matching)) :
          \A a, b \in 1..Len(matching) :
            a < b => matching[p[a]].price <= matching[p[b]].price}

\* collection.find(filter, {projection}).sort(sortOption).toArray()
find(coll, filter, projection, sort) ==
  LET matching == SelectSeq(coll, LAMBDA d : MatchesFilter(d, filter))
  IN {[k \in 1..Len(matching) |-> Project(matching[p[k]], projection)] :
        p \in FindOrders(matching, sort)}

\* ---------------------------------------------------- request inputs
\* The path parameters drawn: the ObjectIds the driver can generate in this
\* run, a string too short and a string of the right length that is not
\* hexadecimal.
Ids ==
  {toHexString(GenOid(k)) : k \in 1..MaxDocs}
    \cup {<<"a", "b", "c">>, [i \in 1..OidHexLen |-> IF i = 1 THEN "g" ELSE "0"]}

\* The same and the ObjectId of the documents an earlier run left.
SeededIds == Ids \cup {toHexString(GenOid(0))}

NoId == <<>>

ProductBodies ==
  { [name |-> Undefined, price |-> Undefined, category |-> Undefined],
    [name |-> Str(<<" ", "a">>), price |-> Num(5), category |-> Str(<<"c", " ">>)],
    [name |-> Str(<<" ">>), price |-> Str(<<"5", "0">>), category |-> Str(<<"c">>)],
    [name |-> Str(<<"b">>), price |-> Str(<<"a", "b", "c">>), category |-> Str(<<"c">>)],
    [name |-> Undefined, price |-> Str(<<"5", "0">>), category |-> Undefined] }

ItemBodies ==
  { [name |-> Undefined, description |-> Undefined],
    [name |-> Str(<<" ", "a">>), description |-> Str(<<"d", " ">>)],
    [name |-> Str(<<>>), description |-> Str(<<"d">>)],
    [name |-> Str(<<" ">>), description |-> Str(<<"d">>)],
    [name |-> Str(<<"b">>), description |-> Undefined] }

NoQuery ==
  [category |-> Undefined, minPrice |-> Undefined, sort |-> Undefined, fields |-> Undefined]

PriceText == <<"p", "r", "i", "c", "e">>

ProductQueries ==
  { NoQuery,
    [NoQuery EXCEPT !.minPrice = Str(<<"5", "0">>)],
    [NoQuery EXCEPT !.sort = Str(PriceText)],
    [NoQuery EXCEPT !.minPrice = Str(<<"5">>), !.sort = Str(PriceText)],
    [NoQuery EXCEPT !.minPrice = Str(<<"5", "0">>), !.sort = Str(<<"n", "a", "m", "e">>)],
    [NoQuery EXCEPT !.minPrice = Str(<<"a", "b", "c">>), !.fields = Str(<<",">>)],
    [NoQuery EXCEPT !.fields = Str(<<",", " ">>)],
    [NoQuery EXCEPT !.fields = Str(<<" ", "n", "a", "m", "e", ",", "p", "r", "i", "c", "e">>),
                    !.sort = Str(PriceText)],
    [NoQuery EXCEPT !.category = Str(<<"c">>), !.minPrice = Str(<<"5">>)] }

Request(id, body, query) == [id |-> id, body |-> body, query |-> query]

\* ------------------------------------------------------------ startup
Init ==
  /\ pc = "load"
  /\ exitCode = 0
  /\ MONGO_URI \in {Undefined, Str(<<>>), Str(<<"m">>)}
  /\ productsCollection = "unset"
  /\ itemsCollection = "unset"
  /\ products = <<>>
  /\ items = <<>>
  /\ clock = 0
  /\ nextOid = 0
  /\ pending = EmptyBag
  /\ res = NoResponse

\* Documents an earlier run of the server left in the database.
SeedProduct ==
  [_id |-> GenOid(0), name |-> <<"a">>, price |-> 50, category |-> <<"c">>,
   createdAt |-> 0]

SeedItem ==
  [_id |-> GenOid(0), name |-> <<"a">>, description |-> <<"d">>,
   createdAt |-> 0, updatedAt |-> 0]

InitSeeded ==
  /\ pc = "load"
  /\ exitCode = 0
  /\ MONGO_URI \in {Undefined, Str(<<>>), Str(<<"m">>)}
  /\ productsCollection = "unset"
  /\ itemsCollection = "unset"
  /\ products = <<SeedProduct>>
  /\ items = <<SeedItem>>
  /\ clock = 0
  /\ nextOid = 0
  /\ pending = EmptyBag
  /\ res = NoResponse

\* The module body: without MONGO_URI the process exits at once, otherwise
\* the routes are registered and startServer() is called, which runs up to
\* its await of client.connect().
LoadModule ==
  /\ pc = "load"
  /\ IF ~Truthy(MONGO_URI)
     THEN pc' = "exited" /\ exitCode' = 1
     ELSE pc' = "connecting" /\ exitCode' = exitCode
  /\ UNCHANGED <<MONGO_URI, productsCollection, itemsCollection,
                 products, items, clock, nextOid, pending, res>>

\* client.connect() resolved: the handles are set, then app.listen().
ConnectOk ==
  /\ pc = "connecting"
  /\ productsCollection' = "products"
  /\ itemsCollection' = "items"
  /\ pc' = "listening"
  /\ UNCHANGED <<exitCode, MONGO_URI, products, items, clock, nextOid, pending, res>>

\* A faulty catch block, used to validate C10: the error is logged and the
\* server listens all the same.
ConnectFailIgnored ==
  /\ pc = "connecting"
  /\ pc' = "listening"
  /\ UNCHANGED <<exitCode, MONGO_URI, productsCollection, itemsCollection,
                 products, items, clock, nextOid, pending, res>>

\* client.connect() rejected: the catch block of startServer.
ConnectFail ==
  /\ pc = "connecting"
  /\ pc' = "exited"
  /\ exitCode' = 1
  /\ UNCHANGED <<MONGO_URI, productsCollection, itemsCollection,
                 products, items, clock, nextOid, pending, res>>

\* The values a call of new Date() may return: the last one or a later one.
Now == {t \in clock..(clock + 1) : t <= MaxClock}

\* app.listen() has been called.
Listening == pc = "listening"

\* A request is dispatched to a handler only by a listening server. The
\* driver gives a document its _id when insertOne is called.
Dispatch(step) ==
  /\ Listening
  /\ clock' = step.clock
  /\ IF step.kind = "respond"
     THEN /\ res' = [status |-> step.status, body |-> step.body]
          /\ UNCHANGED <<pending, nextOid>>
     ELSE /\ BagCardinality(pending) < MaxInFlight
          /\ step.op.kind = "insertOne" => nextOid < MaxDocs
          /\ pending' = pending (+) SetToBag({[route |-> step.route,
                                               req |-> step.req,
                                               op |-> step.op]})
          /\ nextOid' = IF step.op.kind = "insertOne" THEN nextOid + 1 ELSE nextOid
          /\ res' = NoResponse
  /\ UNCHANGED <<startup, products, items>>

\* The store answered request p and the handler sent its response.
Answer(p, reply) ==
  /\ res' = [status |-> reply.status, body |-> reply.body]
  /\ pending' = pending (-) SetToBag({p})
  /\ UNCHANGED <<startup, clock, nextOid>>

AnswerProducts(p, reply) ==
  /\ Answer(p, reply)
  /\ products' = reply.coll
  /\ UNCHANGED items

AnswerItems(p, reply) ==
  /\ Answer(p, reply)
  /\ items' = reply.coll
  /\ UNCHANGED products

\* String.prototype.split(sep)
RECURSIVE Split(_, _)
Split(s, sep) ==
  IF \A k \in DOMAIN s : s[k] # sep THEN <<s>>
  ELSE LET k == CHOOSE j \in DOMAIN s :
                  s[j] = sep /\ \A h \in 1..(j - 1) : s[h] # sep
       IN <<SubSeq(s, 1, k - 1)>> \o Split(SubSeq(s, k + 1, Len(s)), sep)

\* String(fields).split(",").map((f) => f.trim()).filter(Boolean)
FieldList(fields) ==
  LET parts == Split(String(fields), ",")
  IN SelectSeq([k \in DOMAIN parts |-> Trim(parts[k])], LAMBDA f : f # <<>>)

\* =========================== PRODUCTS API ===========================

\* GET /api/products, up to the await of cursor.toArray().
GetProductsStep(query) ==
  LET min == Number(query.minPrice)
      filter == [category |-> IF Truthy(query.category) THEN query.category ELSE Undefined,
                 min |-> IF query.minPrice # Undefined THEN min ELSE Undefined]
      projection == IF Truthy(query.fields)
                    THEN [on |-> TRUE, fields |-> Range(FieldList(query.fields))]
                    ELSE [on |-> FALSE, fields |-> {}]
      sortOption == query.sort = Str(PriceText)
  IN IF query.minPrice # Undefined /\ min.nan
     THEN RespondStep(400, ErrorBody("minPrice must be a number"), clock)
     ELSE IF Truthy(query.fields) /\ FieldList(query.fields) = <<>>
     THEN RespondStep(400, ErrorBody("fields must contain at least one field name"), clock)
     ELSE IF productsCollection = "unset"
     THEN InternalError(clock)
     ELSE IssueStep("GET /api/products", Request(NoId, <<>>, query),
                    [kind |-> "find", filter |-> filter,
                     projection |-> projection, sort |-> sortOption], clock)

GetProducts(query) == Dispatch(GetProductsStep(query))

\* GET /api/products after the await: one reply for each order in which the
\* cursor may return the documents.
GetProductsReplies(p, coll) ==
  {ReplyStep(200, ListBody(docs), coll) :
     docs \in find(coll, p.op.filter, p.op.projection, p.op.sort)}

ReplyGetProducts(p) ==
  /\ p.route = "GET /api/products"
  /\ \E reply \in GetProductsReplies(p, products) : AnswerProducts(p, reply)

\* GET /api/products/:id, up to the await of findOne.
GetProductStep(id) ==
  IF ~isValid(id)
  THEN RespondStep(400, ErrorBody("Invalid product ID"), clock)
  ELSE IF productsCollection = "unset"
  THEN InternalError(clock)
  ELSE IssueStep("GET /api/products/:id", Request(id, <<>>, <<>>),
                 [kind |-> "findOne", oid |-> ObjectId(id)], clock)

GetProduct(id) == Dispatch(GetProductStep(id))

GetProductReply(p, coll) ==
  LET product == findOne(coll, p.op.oid)
  IN IF product = <<>>
     THEN ReplyStep(404, ErrorBody("Product not found"), coll)
     ELSE ReplyStep(200, DocBody(product[1]), coll)

ReplyGetProduct(p) ==
  /\ p.route = "GET /api/products/:id"
  /\ AnswerProducts(p, GetProductReply(p, products))

\* The document POST /api/products inserts.
ProductDoc(body, oid, now) ==
  [_id |-> oid,
   name |-> Trim(String(body.name)),
   price |-> Number(body.price).n,
   category |-> Trim(String(body.category)),
   createdAt |-> now]

\* POST /api/products, up to the await of insertOne.
PostProductStep(body, now) ==
  IF ~Truthy(body.name) \/ body.price = Undefined \/ ~Truthy(body.category)
  THEN RespondStep(400, ErrorBody("Missing fields: name, price, category"), clock)
  ELSE IF Number(body.price).nan
  THEN RespondStep(400, ErrorBody("price must be a number"), clock)
  ELSE IF productsCollection = "unset"
  THEN InternalError(clock)
  ELSE IssueStep("POST /api/products", Request(NoId, body, <<>>),
                 [kind |-> "insertOne",
                  doc |-> ProductDoc(body, GenOid(nextOid + 1), now)], now)

PostProduct(body) == \E now \in Now : Dispatch(PostProductStep(body, now))

\* A faulty handler, used to validate C3: the empty name is rejected only
\* after the document has been inserted.
PostProductReplyLateCheck(p, coll) ==
  IF p.op.doc.name = <<>>
  THEN ReplyStep(400, ErrorBody("name cannot be empty"), insertOne(coll, p.op.doc))
  ELSE ReplyStep(201, CreatedBody("Product created", p.op.doc._id),
                 insertOne(coll, p.op.doc))

PostProductReply(p, coll) ==
  ReplyStep(201, CreatedBody("Product created", p.op.doc._id),
            insertOne(coll, p.op.doc))

ReplyPostProduct(p) ==
  /\ p.route = "POST /api/products"
  /\ AnswerProducts(p, PostProductReply(p, products))

\* The $set document of PUT /api/products/:id: the fields the body holds.
ProductUpdate(body) ==
  [f \in {g \in {"name", "price", "category"} : body[g] # Undefined} |->
     CASE f = "name" -> Trim(String(body.name))
       [] f = "category" -> Trim(String(body.category))
       [] f = "price" -> Number(body.price).n]

\* PUT /api/products/:id, up to the await of updateOne.
PutProductStep(id, body) ==
  IF ~isValid(id)
  THEN RespondStep(400, ErrorBody("Invalid product ID"), clock)
  ELSE IF body.price # Undefined /\ Number(body.price).nan
  THEN RespondStep(400, ErrorBody("price must be a number"), clock)
  ELSE IF DOMAIN ProductUpdate(body) = {}
  THEN RespondStep(400, ErrorBody("Nothing to update"), clock)
  ELSE IF productsCollection = "unset"
  THEN InternalError(clock)
  ELSE IssueStep("PUT /api/products/:id", Request(id, body, <<>>),
                 [kind |-> "updateOne", oid |-> ObjectId(id),
                  set |-> ProductUpdate(body)], clock)

PutProduct(id, body) == Dispatch(PutProductStep(id, body))

PutProductReply(p, coll) ==
  IF matchedCount(coll, p.op.oid) = 0
  THEN ReplyStep(404, ErrorBody("Product not found"), coll)
  ELSE ReplyStep(200, MessageBody("Product updated"),
                 updateOne(coll, p.op.oid, p.op.set))

ReplyPutProduct(p) ==
  /\ p.route = "PUT /api/products/:id"
  /\ AnswerProducts(p, PutProductReply(p, products))

\* DELETE /api/products/:id, up to the await of deleteOne.
DeleteProductStep(id) ==
  IF ~isValid(id)
  THEN RespondStep(400, ErrorBody("Invalid product ID"), clock)
  ELSE IF productsCollection = "unset"
  THEN InternalError(clock)
  ELSE IssueStep("DELETE /api/products/:id", Request(id, <<>>, <<>>),
                 [kind |-> "deleteOne", oid |-> ObjectId(id)], clock)

DeleteProduct(id) == Dispatch(DeleteProductStep(id))

DeleteProductReply(p, coll) ==
  IF matchedCount(coll, p.op.oid) = 0
  THEN ReplyStep(404, ErrorBody("Product not found"), coll)
  ELSE ReplyStep(200, MessageBody("Product deleted"), deleteOne(coll, p.op.oid))

ReplyDeleteProduct(p) ==
  /\ p.route = "DELETE /api/products/:id"
  /\ AnswerProducts(p, DeleteProductReply(p, products))

\* ============================= ITEMS API =============================

\* GET /api/items, up to the await of toArray().
GetItemsStep ==
  IF itemsCollection = "unset"
  THEN InternalError(clock)
  ELSE IssueStep("GET /api/items", Request(NoId, <<>>, <<>>), [kind |-> "find"], clock)

GetItems == Dispatch(GetItemsStep)

GetItemsReply(p, coll) == ReplyStep(200, ListBody(coll), coll)

ReplyGetItems(p) ==
  /\ p.route = "GET /api/items"
  /\ AnswerItems(p, GetItemsReply(p, items))

\* GET /api/items/:id, up to the await of findOne.
GetItemStep(id) ==
  IF ~isValid(id)
  THEN RespondStep(400, ErrorBody("Invalid item ID"), clock)
  ELSE IF itemsCollection = "unset"
  THEN InternalError(clock)
  ELSE IssueStep("GET /api/items/:id", Request(id, <<>>, <<>>),
                 [kind |-> "findOne", oid |-> ObjectId(id)], clock)

GetItem(id) == Dispatch(GetItemStep(id))

GetItemReply(p, coll) ==
  LET item == findOne(coll, p.op.oid)
  IN IF item = <<>>
     THEN ReplyStep(404, ErrorBody("Item not found"), coll)
     ELSE ReplyStep(200, DocBody(item[1]), coll)

ReplyGetItem(p) ==
  /\ p.route = "GET /api/items/:id"
  /\ AnswerItems(p, GetItemReply(p, items))

\* The itemDoc of POST /api/items: createdAt and updatedAt are the values
\* of two calls of new Date(), one after the other.
ItemDoc(body, oid, created, updated) ==
  [_id |-> oid,
   name |-> Trim(String(body.name)),
   description |-> Trim(String(body.description)),
   createdAt |-> created,
   updatedAt |-> updated]

\* POST /api/items, up to the await of insertOne.
PostItemStep(body, created, updated) ==
  LET itemDoc == ItemDoc(body, GenOid(nextOid + 1), created, updated)
  IN IF ~Truthy(body.name) \/ ~Truthy(body.description)
     THEN RespondStep(400, ErrorBody("Missing required fields: name, description"), clock)
     ELSE IF itemDoc.name = <<>> \/ itemDoc.description = <<>>
     THEN RespondStep(400, ErrorBody("name and description cannot be empty"), updated)
     ELSE IF itemsCollection = "unset"
     THEN InternalError(updated)
     ELSE IssueStep("POST /api/items", Request(NoId, body, <<>>),
                    [kind |-> "insertOne", doc |-> itemDoc], updated)

PostItem(body) ==
  \E created \in Now :
    \E updated \in {t \in created..(created + 1) : t <= MaxClock} :
      Dispatch(PostItemStep(body, created, updated))

PostItemReply(p, coll) ==
  ReplyStep(201, CreatedBody("Item created", p.op.doc._id), insertOne(coll, p.op.doc))

ReplyPostItem(p) ==
  /\ p.route = "POST /api/items"
  /\ AnswerItems(p, PostItemReply(p, items))

\* The `updated` object of PUT /api/items/:id.
ItemReplacement(body, now) ==
  [name |-> Trim(String(body.name)),
   description |-> Trim(String(body.description)),
   updatedAt |-> now]

\* PUT /api/items/:id, up to the await of updateOne.
PutItemStep(id, body, now) ==
  LET updated == ItemReplacement(body, now)
  IN IF ~isValid(id)
     THEN RespondStep(400, ErrorBody("Invalid item ID"), clock)
     ELSE IF ~Truthy(body.name) \/ ~Truthy(body.description)
     THEN RespondStep(400, ErrorBody("PUT requires full update: name and description are required"),
                      clock)
     ELSE IF updated.name = <<>> \/ updated.description = <<>>
     THEN RespondStep(400, ErrorBody("name and description cannot be empty"), now)
     ELSE IF itemsCollection = "unset"
     THEN InternalError(now)
     ELSE IssueStep("PUT /api/items/:id", Request(id, body, <<>>),
                    [kind |-> "updateOne", oid |-> ObjectId(id), set |-> updated], now)

PutItem(id, body) == \E now \in Now : Dispatch(PutItemStep(id, body, now))

\* A faulty handler, used to validate C2: matchedCount is not looked at.
PutItemReplyUnmatched(p, coll) ==
  ReplyStep(200, MessageBody("Item updated (PUT)"),
            updateOne(coll, p.op.oid, p.op.set))

PutItemReply(p, coll) ==
  IF matchedCount(coll, p.op.oid) = 0
  THEN ReplyStep(404, ErrorBody("Item not found"), coll)
  ELSE ReplyStep(200, MessageBody("Item updated (PUT)"),
                 updateOne(coll, p.op.oid, p.op.set))

ReplyPutItem(p) ==
  /\ p.route = "PUT /api/items/:id"
  /\ AnswerItems(p, PutItemReply(p, items))

\* A faulty `update` object, used to validate C9: updatedAt is left out.
ItemPatchNoTimestamp(body, now) ==
  [f \in {g \in {"name", "description"} : body[g] # Undefined} |->
     CASE f = "name" -> Trim(String(body.name))
       [] f = "description" -> Trim(String(body.description))]

\* The `update` object of PATCH /api/items/:id: updatedAt and the fields
\* the body holds.
ItemPatch(body, now) ==
  [f \in {"updatedAt"} \cup {g \in {"name", "description"} : body[g] # Undefined} |->
     CASE f = "updatedAt" -> now
       [] f = "name" -> Trim(String(body.name))
       [] f = "description" -> Trim(String(body.description))]

\* A faulty handler, used to validate C1: the ObjectId.isValid check is left
\* out, so new ObjectId(id) throws on a malformed id and the catch block
\* answers 500.
PatchItemStepNoIdCheck(id, body, now) ==
  LET update == ItemPatch(body, now)
  IN IF body.name # Undefined /\ update.name = <<>>
     THEN RespondStep(400, ErrorBody("name cannot be empty"), now)
     ELSE IF body.description # Undefined /\ update.description = <<>>
     THEN RespondStep(400, ErrorBody("description cannot be empty"), now)
     ELSE IF Cardinality(DOMAIN update) = 1
     THEN RespondStep(400, ErrorBody("PATCH requires at least one field: name or description"),
                      now)
     ELSE IF itemsCollection = "unset" \/ ~isValid(id)
     THEN InternalError(now)
     ELSE IssueStep("PATCH /api/items/:id", Request(id, body, <<>>),
                    [kind |-> "updateOne", oid |-> ObjectId(id), set |-> update], now)

\* PATCH /api/items/:id, up to the await of updateOne.
PatchItemStep(id, body, now) ==
  LET update == ItemPatch(body, now)
  IN IF ~isValid(id)
     THEN RespondStep(400, ErrorBody("Invalid item ID"), clock)
     ELSE IF body.name # Undefined /\ update.name = <<>>
     THEN RespondStep(400, ErrorBody("name cannot be empty"), now)
     ELSE IF body.description # Undefined /\ update.description = <<>>
     THEN RespondStep(400, ErrorBody("description cannot be empty"), now)
     ELSE IF Cardinality(DOMAIN update) = 1
     THEN RespondStep(400, ErrorBody("PATCH requires at least one field: name or description"),
                      now)
     ELSE IF itemsCollection = "unset"
     THEN InternalError(now)
     ELSE IssueStep("PATCH /api/items/:id", Request(id, body, <<>>),
                    [kind |-> "updateOne", oid |-> ObjectId(id), set |-> update], now)

PatchItem(id, body) == \E now \in Now : Dispatch(PatchItemStep(id, body, now))

PatchItemReply(p, coll) ==
  IF matchedCount(coll, p.op.oid) = 0
  THEN ReplyStep(404, ErrorBody("Item not found"), coll)
  ELSE ReplyStep(200, MessageBody("Item updated (PATCH)"),
                 updateOne(coll, p.op.oid, p.op.set))

ReplyPatchItem(p) ==
  /\ p.route = "PATCH /api/items/:id"
  /\ AnswerItems(p, PatchItemReply(p, items))

\* DELETE /api/items/:id, up to the await of deleteOne.
DeleteItemStep(id) ==
  IF ~isValid(id)
  THEN RespondStep(400, ErrorBody("Invalid item ID"), clock)
  ELSE IF itemsCollection = "unset"
  THEN InternalError(clock)
  ELSE IssueStep("DELETE /api/items/:id", Request(id, <<>>, <<>>),
                 [kind |-> "deleteOne", oid |-> ObjectId(id)], clock)

DeleteItem(id) == Dispatch(DeleteItemStep(id))

\* A faulty handler, used to validate C6: deletedCount is not looked at.
DeleteItemReplyUncounted(p, coll) ==
  ReplyStep(204, EmptyBody, deleteOne(coll, p.op.oid))

\* 204 No Content: res.status(204).send()
DeleteItemReply(p, coll) ==
  IF matchedCount(coll, p.op.oid) = 0
  THEN ReplyStep(404, ErrorBody("Item not found"), coll)
  ELSE ReplyStep(204, EmptyBody, deleteOne(coll, p.op.oid))

ReplyDeleteItem(p) ==
  /\ p.route = "DELETE /api/items/:id"
  /\ AnswerItems(p, DeleteItemReply(p, items))

\* ------------------------------------------------------ specification
ReceiveProducts(ids) ==
  \/ \E query \in ProductQueries : GetProducts(query)
  \/ \E id \in ids : GetProduct(id)
  \/ \E body \in ProductBodies : PostProduct(body)
  \/ \E id \in ids, body \in ProductBodies : PutProduct(id, body)
  \/ \E id \in ids : DeleteProduct(id)

ReplyProducts ==
  \E p \in BagToSet(pending) :
    \/ ReplyGetProducts(p)
    \/ ReplyGetProduct(p)
    \/ ReplyPostProduct(p)
    \/ ReplyPutProduct(p)
    \/ ReplyDeleteProduct(p)

ReceiveItems(ids) ==
  \/ GetItems
  \/ \E id \in ids : GetItem(id)
  \/ \E body \in ItemBodies : PostItem(body)
  \/ \E id \in ids, body \in ItemBodies : PutItem(id, body)
  \/ \E id \in ids, body \in ItemBodies : PatchItem(id, body)
  \/ \E id \in ids : DeleteItem(id)

ReplyItems ==
  \E p \in BagToSet(pending) :
    \/ ReplyGetItems(p)
    \/ ReplyGetItem(p)
    \/ ReplyPostItem(p)
    \/ ReplyPutItem(p)
    \/ ReplyPatchItem(p)
    \/ ReplyDeleteItem(p)

StartUp == LoadModule \/ ConnectOk \/ ConnectFail

\* The whole server on a database that is empty at startup.
Next == StartUp \/ ReceiveProducts(Ids) \/ ReplyProducts \/ ReceiveItems(Ids) \/ ReplyItems

Spec == Init /\ [][Next]_vars

\* The items API alone, on a database that is empty at startup.
NextItems == StartUp \/ ReceiveItems(Ids) \/ ReplyItems

SpecItems == Init /\ [][NextItems]_vars

\* The products API alone, on a database that holds a product and an item
\* of an earlier run.
NextProducts == StartUp \/ ReceiveProducts(SeededIds) \/ ReplyProducts

SpecProducts == InitSeeded /\ [][NextProducts]_vars

\* ============================== CLAIMS ==============================

IdRoutes ==
  {"GET /api/products/:id", "PUT /api/products/:id", "DELETE /api/products/:id",
   "GET /api/items/:id", "PUT /api/items/:id", "PATCH /api/items/:id",
   "DELETE /api/items/:id"}

\* What the handlers of the :id routes do with the path parameter id, over
\* every body and every reading of the clock.
IdRouteSteps(id) ==
  {GetProductStep(id), DeleteProductStep(id), GetItemStep(id), DeleteItemStep(id)}
    \cup {PutProductStep(id, body) : body \in ProductBodies}
    \cup {PutItemStep(id, body, now) : body \in ItemBodies, now \in Now}
    \cup {PatchItemStep(id, body, now) : body \in ItemBodies, now \in Now}

\* C1: a path parameter that is no well-formed ObjectId is answered 400 by
\* every :id route, whatever the body, and no command for such a request is
\* ever handed to the store.
C1_MalformedIdRejected ==
  Listening =>
    /\ \A id \in {i \in Ids : ~isValid(i)} : \A step \in IdRouteSteps(id) :
         step.kind = "respond" /\ step.status = 400
    /\ \A p \in BagToSet(pending) : p.route \in IdRoutes => isValid(p.req.id)

\* A malformed id was answered 400 while the collection held a document.
C1_Witness ==
  /\ res.status = 400
  /\ res.body.text = "Invalid product ID"
  /\ products # <<>>

\* The status of the response to a request when the store answers it in the
\* current state.
GetProductStatus(id) ==
  LET step == GetProductStep(id)
  IN IF step.kind = "respond" THEN step.status
     ELSE GetProductReply(step, products).status

PutProductStatus(id, body) ==
  LET step == PutProductStep(id, body)
  IN IF step.kind = "respond" THEN step.status
     ELSE PutProductReply(step, products).status

DeleteProductStatus(id) ==
  LET step == DeleteProductStep(id)
  IN IF step.kind = "respond" THEN step.status
     ELSE DeleteProductReply(step, products).status

GetItemStatus(id) ==
  LET step == GetItemStep(id)
  IN IF step.kind = "respond" THEN step.status
     ELSE GetItemReply(step, items).status

PutItemStatus(id, body, now) ==
  LET step == PutItemStep(id, body, now)
  IN IF step.kind = "respond" THEN step.status
     ELSE PutItemReply(step, items).status

PatchItemStatus(id, body, now) ==
  LET step == PatchItemStep(id, body, now)
  IN IF step.kind = "respond" THEN step.status
     ELSE PatchItemReply(step, items).status

DeleteItemStatus(id) ==
  LET step == DeleteItemStep(id)
  IN IF step.kind = "respond" THEN step.status
     ELSE DeleteItemReply(step, items).status

\* id is a well-formed ObjectId that no document of coll has.
Missing(coll, id) == isValid(id) /\ Matches(coll, ObjectId(id)) = {}

\* C2 as stated: a well-formed id that matches no document is answered 404
\* by get, update and delete, whatever the body.
C2_MissingIdAnswered404 ==
  Listening =>
    /\ \A id \in Ids : Missing(products, id) =>
         /\ GetProductStatus(id) = 404
         /\ DeleteProductStatus(id) = 404
         /\ \A body \in ProductBodies : PutProductStatus(id, body) = 404
    /\ \A id \in Ids : Missing(items, id) =>
         /\ GetItemStatus(id) = 404
         /\ DeleteItemStatus(id) = 404
         /\ \A body \in ItemBodies, now \in Now :
              /\ PutItemStatus(id, body, now) = 404
              /\ PatchItemStatus(id, body, now) = 404

\* The bodies the update routes accept.
PutProductAccepts(body) ==
  /\ \E f \in {"name", "price", "category"} : body[f] # Undefined
  /\ body.price # Undefined => ~Number(body.price).nan

NonBlank(v) == v.t = "string" /\ Trim(v.s) # <<>>

PutItemAccepts(body) == NonBlank(body.name) /\ NonBlank(body.description)

PatchItemAccepts(body) ==
  /\ body.name # Undefined \/ body.description # Undefined
  /\ body.name # Undefined => NonBlank(body.name)
  /\ body.description # Undefined => NonBlank(body.description)

\* The answer of the store's side of an :id route to the command p.
IdRouteReply(p) ==
  CASE p.route = "GET /api/products/:id" -> GetProductReply(p, products)
    [] p.route = "PUT /api/products/:id" -> PutProductReply(p, products)
    [] p.route = "DELETE /api/products/:id" -> DeleteProductReply(p, products)
    [] p.route = "GET /api/items/:id" -> GetItemReply(p, items)
    [] p.route = "PUT /api/items/:id" -> PutItemReply(p, items)
    [] p.route = "PATCH /api/items/:id" -> PatchItemReply(p, items)
    [] p.route = "DELETE /api/items/:id" -> DeleteItemReply(p, items)

IdRouteCollection(p) ==
  IF p.route \in {"GET /api/products/:id", "PUT /api/products/:id",
                  "DELETE /api/products/:id"}
  THEN products ELSE items

\* C2, amended: for a well-formed id that matches no document, get and
\* delete are answered 404; an update is answered 404 when its body passes
\* the validation of its route and 400 otherwise; and every request the
\* store answers while no document has its id is answered 404, the
\* collection staying as it is.
C2_MissingIdAnswered404OrBodyRejected ==
  Listening =>
    /\ \A id \in Ids : Missing(products, id) =>
         /\ GetProductStatus(id) = 404
         /\ DeleteProductStatus(id) = 404
         /\ \A body \in ProductBodies :
              PutProductStatus(id, body) = IF PutProductAccepts(body) THEN 404 ELSE 400
    /\ \A id \in Ids : Missing(items, id) =>
         /\ GetItemStatus(id) = 404
         /\ DeleteItemStatus(id) = 404
         /\ \A body \in ItemBodies, now \in Now :
              /\ PutItemStatus(id, body, now) = IF PutItemAccepts(body) THEN 404 ELSE 400
              /\ PatchItemStatus(id, body, now) = IF PatchItemAccepts(body) THEN 404 ELSE 400
    /\ \A p \in BagToSet(pending) :
         (p.route \in IdRoutes /\ Missing(IdRouteCollection(p), p.req.id)) =>
           /\ IdRouteReply(p).status = 404
           /\ IdRouteReply(p).coll = IdRouteCollection(p)

\* An update of an id that no item has was answered 404 while the products
\* collection held a document.
C2_Witness ==
  /\ res.status = 404
  /\ res.body.text = "Item not found"
  /\ products # <<>>
  /\ items = <<>>

\* C3: a step that answers 400 leaves both collections, and the commands in
\* flight, as they were.
C3_BadRequestChangesNothing ==
  [][res'.status = 400 =>
       products' = products /\ items' = items /\ pending' = pending]_vars

\* PATCH with an empty name was answered 400 while an item was stored.
C3_Witness ==
  /\ res.status = 400
  /\ res.body.text = "name cannot be empty"
  /\ items # <<>>

\* C4: once the store has answered a POST /api/items in flight, a
\* GET /api/items/:id of the id returned, with nothing in between, returns
\* the name and description posted (trimmed) and createdAt = updatedAt.
C4_CreatedItemReadsBackEqualTimestamps ==
  \A p \in BagToSet(pending) : p.route = "POST /api/items" =>
    LET post == PostItemReply(p, items)
        step == GetItemStep(toHexString(post.body.id))
        got == GetItemReply(step, post.coll)
    IN /\ post.status = 201
       /\ step.kind = "issue"
       /\ got.status = 200
       /\ got.body.docs[1].name = Trim(String(p.req.body.name))
       /\ got.body.docs[1].description = Trim(String(p.req.body.description))
       /\ got.body.docs[1].createdAt = got.body.docs[1].updatedAt

\* s is not empty and has no white space at either end.
Trimmed(s) == s # <<>> /\ s[1] \notin WhiteSpace /\ s[Len(s)] \notin WhiteSpace

\* C5: the text fields of every stored document are non-empty and carry no
\* surrounding white space.
C5_StoredTextTrimmedNonEmpty ==
  /\ \A k \in DOMAIN products :
       Trimmed(products[k].name) /\ Trimmed(products[k].category)
  /\ \A k \in DOMAIN items :
       Trimmed(items[k].name) /\ Trimmed(items[k].description)

\* C6: when the store answers a DELETE /api/items/:id, the response is 204
\* with an empty body and exactly the item of that id is removed if there is
\* one, and 404 with the collection unchanged if there is none; and an id
\* that has been generated and is neither stored nor about to be inserted is
\* never stored again. So of several DELETEs of one item, concurrent or not,
\* the first answered gets 204 and every other 404.
C6_DeleteItemOnce ==
  [][/\ \A p \in BagToSet(pending) :
          (p.route = "DELETE /api/items/:id" /\ pending' = pending (-) SetToBag({p})) =>
            IF \E k \in DOMAIN items : items[k]._id = ObjectId(p.req.id)
            THEN /\ res' = [status |-> 204, body |-> EmptyBody]
                 /\ items' = SelectSeq(items, LAMBDA d : d._id # ObjectId(p.req.id))
                 /\ Len(items') = Len(items) - 1
            ELSE /\ res'.status = 404
                 /\ items' = items
     /\ \A oid \in {GenOid(k) : k \in 1..nextOid} :
          (/\ \A k \in DOMAIN items : items[k]._id # oid
           /\ \A q \in BagToSet(pending) :
                q.route = "POST /api/items" => q.op.doc._id # oid)
            => \A k \in DOMAIN items' : items'[k]._id # oid]_vars

\* One DELETE of an item was answered 204 while another DELETE is in flight.
C6_Witness ==
  /\ res.status = 204
  /\ items = <<>>
  /\ \E p \in BagToSet(pending) : p.route = "DELETE /api/items/:id"

\* C7: when the store answers a GET /api/products, the response is 200, its
\* products are exactly the stored products with price >= minPrice (when
\* given) and the category (when given), each with the fields asked for, in
\* non-decreasing order of price with sort=price and in the order of the
\* collection with any other sort; count is their number.
C7_FilterSortCount ==
  [][\A p \in BagToSet(pending) :
       (p.route = "GET /api/products" /\ pending' = pending (-) SetToBag({p})) =>
         LET q == p.req.query
             wanted == {k \in DOMAIN products :
                          /\ q.minPrice # Undefined =>
                               products[k].price >= Number(q.minPrice).n
                          /\ Truthy(q.category) => products[k].category = q.category.s}
             asked == IF Truthy(q.fields) THEN Range(FieldList(q.fields)) ELSE {}
             shown(k) == IF Truthy(q.fields)
                         THEN [f \in {g \in DOMAIN products[k] : FieldChars[g] \in asked}
                                 |-> products[k][f]]
                         ELSE products[k]
             docs == res'.body.docs
         IN /\ res'.status = 200
            /\ res'.body.count = Len(docs)
            /\ Len(docs) = Cardinality(wanted)
            /\ \E order \in [1..Len(docs) -> wanted] :
                 /\ \A a, b \in 1..Len(docs) : a # b => order[a] # order[b]
                 /\ \A a \in 1..Len(docs) : docs[a] = shown(order[a])
                 /\ \A a, b \in 1..Len(docs) : a < b =>
                      IF q.sort = Str(PriceText)
                      THEN products[order[a]].price <= products[order[b]].price
                      ELSE order[a] < order[b]
            /\ products' = products]_vars

\* A list sorted by price was returned in an order that is not the order of
\* the collection.
C7_Witness ==
  /\ res.status = 200
  /\ res.body.kind = "list"
  /\ res.body.count = 2
  /\ Len(products) = 2
  /\ res.body.docs[1].price < res.body.docs[2].price
  /\ products[1].price > products[2].price

\* C8: a PUT /api/products/:id answered 200 changes, on the product of that
\* id, no field but those among name, price and category that the body
\* holds; every other product and the items collection stay as they are.
C8_PutProductFrame ==
  [][\A p \in BagToSet(pending) :
       (/\ p.route = "PUT /api/products/:id"
        /\ pending' = pending (-) SetToBag({p})
        /\ res'.status = 200) =>
         LET supplied == {f \in {"name", "price", "category"} : p.req.body[f] # Undefined}
         IN /\ items' = items
            /\ DOMAIN products' = DOMAIN products
            /\ \A k \in DOMAIN products :
                 IF products[k]._id = ObjectId(p.req.id)
                 THEN /\ DOMAIN products'[k] = DOMAIN products[k]
                      /\ \A f \in DOMAIN products[k] \ supplied :
                           products'[k][f] = products[k][f]
                 ELSE products'[k] = products[k]]_vars

\* A PUT changed the price of one of two products and left its name.
C8_Witness ==
  /\ res.status = 200
  /\ res.body.text = "Product updated"
  /\ Len(products) = 2
  /\ products[2].price = 50
  /\ products[2].name = <<"a">>

\* C9 as stated: an update of an item never lowers its updatedAt.
C9_UpdatedAtNeverDecreases ==
  [][\A k \in DOMAIN items : \A j \in DOMAIN items' :
       items'[j]._id = items[k]._id => items'[j].updatedAt >= items[k].updatedAt]_vars

ItemUpdateRoutes == {"PUT /api/items/:id", "PATCH /api/items/:id"}

\* C9, amended: a PUT or PATCH of an item reads the clock when the request
\* arrives, so that its timestamp is no earlier than any updatedAt stored at
\* that moment; when the store applies it, updatedAt becomes that timestamp
\* and _id and createdAt stay as they are. (updatedAt is lowered when the
\* store applies two concurrent updates in the order opposite to arrival.)
C9_UpdateStampsArrivalTime ==
  [][/\ \A p \in BagToSet(pending') :
          (p.route \in ItemUpdateRoutes /\ pending' = pending (+) SetToBag({p})) =>
            /\ "updatedAt" \in DOMAIN p.op.set
            /\ p.op.set.updatedAt >= clock
            /\ p.op.set.updatedAt = clock'
            /\ \A k \in DOMAIN items : p.op.set.updatedAt >= items[k].updatedAt
     /\ \A p \in BagToSet(pending) :
          (/\ p.route \in ItemUpdateRoutes
           /\ pending' = pending (-) SetToBag({p})
           /\ res'.status = 200) =>
            /\ DOMAIN items' = DOMAIN items
            /\ \A k \in DOMAIN items :
                 IF items[k]._id = ObjectId(p.req.id)
                 THEN /\ items'[k].updatedAt = p.op.set.updatedAt
                      /\ items'[k].createdAt = items[k].createdAt
                      /\ items'[k]._id = items[k]._id
                 ELSE items'[k] = items[k]]_vars

\* A PUT of an item was applied while a PATCH of the same item that arrived
\* earlier, and carries an earlier timestamp, is still in flight.
C9_Witness ==
  /\ res.status = 200
  /\ res.body.text = "Item updated (PUT)"
  /\ \E p \in BagToSet(pending) :
       /\ p.route = "PATCH /api/items/:id"
       /\ \E k \in DOMAIN items :
            /\ items[k]._id = p.op.oid
            /\ p.op.set.updatedAt < items[k].updatedAt

\* C10: a request is handled only once both handles are set, which happens
\* once, when the connection is established; without MONGO_URI, or when the
\* connection fails, the process exits with code 1 and has handled nothing.
C10_ConnectedBeforeServing ==
  /\ [](/\ (Listening \/ pending # EmptyBag \/ res # NoResponse) =>
             /\ productsCollection = "products"
             /\ itemsCollection = "items"
             /\ Truthy(MONGO_URI)
        /\ pc = "exited" =>
             /\ exitCode = 1
             /\ pending = EmptyBag
             /\ res = NoResponse
             /\ productsCollection = "unset"
             /\ itemsCollection = "unset"
        /\ ~Truthy(MONGO_URI) => pc \in {"load", "exited"})
  /\ [][/\ productsCollection # "unset" => productsCollection' = productsCollection
        /\ itemsCollection # "unset" => itemsCollection' = itemsCollection
        /\ pc = "exited" => pc' = "exited"
        /\ pc' = "listening" => pc \in {"connecting", "listening"}]_vars

\* The connection failed and the process exited.
C10_Witness ==
  /\ pc = "exited"
  /\ exitCode = 1
  /\ Truthy(MONGO_URI)
====
